---- MODULE Spec2Model ----
(***************************************************************************)
(* Model of the OoperLooper workstation.                                   *)
(*                                                                         *)
(*   - LoopStation / LoopSlot (three-slot loop recorder, MediaRecorder     *)
(*     per take, shared record bus)                                        *)
(*   - Metronome (lookahead scheduler driven by setTimeout)                *)
(*                                                                         *)
(* Every handler of the program runs to completion (single-threaded event  *)
(* loop), so each handler is one action.  The browser's asynchronous       *)
(* completions (the MediaRecorder stop task, the timer callback) are       *)
(* actions of their own, interleaved freely with the user's operations.    *)
(***************************************************************************)
EXTENDS Integers, Sequences, FiniteSets

(***************************************************************************)
(* Bounds of the model and constants of the program.                       *)
(***************************************************************************)

\* new LoopSlot(0), new LoopSlot(1), new LoopSlot(2)
NumSlots == 3

\* number of MediaRecorder objects ever constructed in one behaviour
MaxRecorders == 2

Slots == 0 .. (NumSlots - 1)

RecIds == 1 .. MaxRecorders

\* number of positions of a slot's gain slider above zero
GainSteps == 1

\* the values a gain slider takes, from 0 (silent) to GainSteps (full)
Gains == 0 .. GainSteps

\* this.recorder is undefined until the first startRecording
NoRecorder == 0

\* this.audioUrl = null
Null == << >>

VARIABLES
    state,      \* LoopSlot.state, per slot
    chunks,     \* LoopSlot.chunks, per slot: sequence of recorded Blobs
    audioUrl,   \* LoopSlot.audioUrl, per slot: Null or <<blob>>
    recorder,   \* LoopSlot.recorder, per slot: a recorder id or NoRecorder
    audioEl,    \* per slot: TRUE iff the slot's <audio> element is playing
    recState,   \* MediaRecorder state per recorder id:
                \*   "none" (not constructed), "recording",
                \*   "stopping" (inactive, stop task queued), "inactive"
    recOwner,   \* per recorder id: the slot whose callbacks it carries
    gainNode,   \* LoopSlot.gainNode, per slot: Null or <<gain.value>>
    slider,     \* LoopSlot.ui.slider.value, per slot
    selectedSlot,   \* app.selectedSlot
    micNode,    \* AudioEngine.setupMic: "pending" (getUserMedia not settled),
                \*   "connected" (micNode feeds recordDest), "denied"
    last,       \* the handler that ran last: its name, its slot, the recorder
                \* it finalized, and the slot states before it ran
    owed        \* pairs <<j, i>>: toggleRecord(i) force-stopped slot j and
                \* j has not been Playing since

stationVars == << state, chunks, audioUrl, recorder, audioEl,
                  recState, recOwner, gainNode, slider, selectedSlot,
                  micNode, last, owed >>

VARIABLES
    clock,          \* AudioContext.currentTime, in ticks of 5 ms
    isPlaying,      \* Metronome.isPlaying
    bpm,            \* Metronome.bpm
    nextNoteTime,   \* Metronome.nextNoteTime, in ticks
    timerID,        \* Metronome.timerID: id of the last setTimeout, 0 = null
    timers,         \* armed timeouts: records [id, left], left = ticks to go
    events,         \* trigger times handed to scheduleNote, in emission order
    runFirst,       \* number of events emitted before the current run began
    runT0,          \* clock at which the current run began
    bpmSince,       \* number of events emitted before bpm last changed
    bpmChanges,     \* number of changes of bpm so far
    runs,           \* number of times the metronome was switched on
    passFrom,       \* number of events emitted before the last handler ran
    mlast           \* the metronome handler that ran last

metroVars == << clock, isPlaying, bpm, nextNoteTime, timerID, timers, events,
                runFirst, runT0, bpmSince, bpmChanges, runs, passFrom,
                mlast >>

VARIABLES
    looper,     \* the OoperLooper object of script.js: isRecording, isPlaying,
                \* recordedNotes, recordStartTime, loopDuration,
                \* playbackTimeouts, activeOscillators (the notes sounding)
    dateNow,    \* Date.now(), in ticks
    llast       \* the handler of the looper that ran last

looperVars == << looper, dateNow, llast >>

vars == << stationVars, metroVars, looperVars >>

(***************************************************************************)
(* MediaRecorder (browser primitive), as far as the program uses it.       *)
(***************************************************************************)

\* ids are handed out in construction order
NumRecorders(rs) == Cardinality({r \in RecIds : rs[r] # "none"})

\* The Blob a recorder hands over carries the data of that take: a Blob is
\* modelled by the id of the recorder that produced it.
BlobOf(r) == r

\* a Blob of size 0: a recorder stopped before it gathered any data hands
\* over an empty Blob in its dataavailable event
EmptyBlob == 0

\* the Blobs the stop task of recorder r may deliver
FinalData(r) == {BlobOf(r), EmptyBlob}

\* a MediaRecorder.stop() that queues no task: dataavailable and stop are
\* never fired
RecorderStopNoTask(rs, r) ==
    IF rs[r] = "recording" THEN [rs EXCEPT ![r] = "inactive"] ELSE rs

\* MediaRecorder.stop(): on an inactive recorder nothing happens; otherwise
\* the recorder becomes inactive at once and a task is queued that fires
\* dataavailable and then stop.
RecorderStop(rs, r) ==
    IF rs[r] = "recording" THEN [rs EXCEPT ![r] = "stopping"] ELSE rs

\* capture sessions open on the record bus: started and not yet stopped
OpenSessions == {r \in RecIds : recState[r] = "recording"}

(***************************************************************************)
(* LoopSlot methods, as functions from a station record to a station       *)
(* record.  A station record st has the fields state, chunks, audioUrl,    *)
(* recorder, audioEl, recState, recOwner.                                  *)
(***************************************************************************)

Station ==
    [state |-> state, chunks |-> chunks, audioUrl |-> audioUrl,
     recorder |-> recorder, audioEl |-> audioEl,
     recState |-> recState, recOwner |-> recOwner,
     gainNode |-> gainNode, slider |-> slider]

\* stopRecording without the check of the slot's state
stopRecordingAnyState(st, i) ==
    IF st.recorder[i] # NoRecorder
    THEN [st EXCEPT !.recState = RecorderStop(st.recState, st.recorder[i])]
    ELSE st

\* LoopSlot.stopRecording
stopRecording(st, i) ==
    IF st.recorder[i] # NoRecorder /\ st.state[i] = "recording"
    THEN [st EXCEPT !.recState = RecorderStop(st.recState, st.recorder[i])]
    ELSE st

\* LoopSlot.startRecording; r is the id of the MediaRecorder constructed
startRecording(st, i, r) ==
    [st EXCEPT !.chunks[i] = << >>,
               !.recorder[i] = r,
               !.recOwner[r] = i,
               !.recState[r] = "recording",
               !.state[i] = "recording"]

\* LoopSlot.toggle
toggle(st, i, r) ==
    IF st.state[i] = "recording"
    THEN stopRecording(st, i)
    ELSE startRecording(st, i, r)

\* LoopSlot.play
play(st, i) ==
    IF st.audioUrl[i] = Null
    THEN st
    ELSE [st EXCEPT !.gainNode[i] = IF @ = Null THEN << st.slider[i] >> ELSE @,
                    !.audioEl[i] = TRUE,
                    !.state[i] = "playing"]

\* stop that pauses a playing loop and overlooks a slot that is recording
stopOnlyPlaying(st, i) ==
    LET paused == [st EXCEPT !.audioEl[i] = FALSE]
    IN  IF paused.state[i] = "playing"
        THEN [paused EXCEPT !.state[i] = "stopped"]
        ELSE paused

\* LoopSlot.stop
stop(st, i) ==
    LET paused == [st EXCEPT !.audioEl[i] = FALSE]
    IN  IF paused.state[i] # "empty"
        THEN [paused EXCEPT !.state[i] = "stopped"]
        ELSE paused

\* clear that drops the asset and forgets to reset the state
clearKeepsState(st, i) ==
    LET stopped == stop(st, i)
    IN  [stopped EXCEPT !.audioUrl[i] = Null]

\* clear that also stops the slot after the one asked for
clearStopsNext(st, i) ==
    LET stopped == stop(stop(st, i), (i + 1) % NumSlots)
    IN  [stopped EXCEPT !.audioUrl[i] = Null, !.state[i] = "empty"]

\* LoopSlot.clear
clear(st, i) ==
    LET stopped == stop(st, i)
    IN  [stopped EXCEPT !.audioUrl[i] = Null, !.state[i] = "empty"]

\* recorder.ondataavailable = e => this.chunks.push(e.data)
ondataavailable(st, i, data) ==
    [st EXCEPT !.chunks[i] = Append(st.chunks[i], data)]

\* recorder.onstop
onstop(st, i) ==
    LET blob == st.chunks[i]
        made == [st EXCEPT !.audioUrl[i] = << blob >>, !.state[i] = "playing"]
    IN  play(made, i)

(***************************************************************************)
(* LoopStation methods.                                                    *)
(***************************************************************************)

\* this.slots.forEach((s, i) => { if (i !== idx && s.state === 'recording')
\* s.stopRecording(); }), from slot i on, in index order
RECURSIVE StopOthersFrom(_, _, _)
StopOthersFrom(st, idx, i) ==
    IF i >= NumSlots
    THEN st
    ELSE StopOthersFrom(IF i # idx /\ st.state[i] = "recording"
                        THEN stopRecording(st, i)
                        ELSE st,
                        idx, i + 1)

\* toggleRecord that toggles the slot after the one asked for
toggleRecordNextSlot(st, idx, r) ==
    toggle(StopOthersFrom(st, idx, 0), (idx + 1) % NumSlots, r)

\* LoopStation.toggleRecord
toggleRecord(st, idx, r) == toggle(StopOthersFrom(st, idx, 0), idx, r)

\* this.slots.forEach(s => s.stop()), from slot i on, in index order
RECURSIVE StopFrom(_, _)
StopFrom(st, i) ==
    IF i >= NumSlots THEN st ELSE StopFrom(stop(st, i), i + 1)

\* LoopStation.stopAll
stopAll(st) == StopFrom(st, 0)

\* this.slots.forEach(s => s.play()), from slot i on, in index order
RECURSIVE PlayFrom(_, _)
PlayFrom(st, i) ==
    IF i >= NumSlots THEN st ELSE PlayFrom(play(st, i), i + 1)

\* LoopStation.playAll
playAll(st) == PlayFrom(st, 0)

(***************************************************************************)
(* State machine of the loop station.                                      *)
(***************************************************************************)

\* the pairs still owed after a handler: a pair <<j, i>> is settled once
\* slot j is Playing
StillOwed(pairs, st) == {p \in pairs : st.state[p[1]] # "playing"}

Commit(st, op, idx, r, pairs) ==
    /\ state' = st.state
    /\ chunks' = st.chunks
    /\ audioUrl' = st.audioUrl
    /\ recorder' = st.recorder
    /\ audioEl' = st.audioEl
    /\ recState' = st.recState
    /\ recOwner' = st.recOwner
    /\ gainNode' = st.gainNode
    /\ last' = [op |-> op, idx |-> idx, rec |-> r, pre |-> state]
    /\ owed' = StillOwed(pairs, st)
    /\ UNCHANGED << slider, selectedSlot, micNode, metroVars, looperVars >>

StationInit ==
    /\ state = [i \in Slots |-> "empty"]
    /\ chunks = [i \in Slots |-> << >>]
    /\ audioUrl = [i \in Slots |-> Null]
    /\ recorder = [i \in Slots |-> NoRecorder]
    /\ audioEl = [i \in Slots |-> FALSE]
    /\ recState = [r \in RecIds |-> "none"]
    /\ recOwner = [r \in RecIds |-> 0]
    /\ gainNode = [i \in Slots |-> Null]
    /\ slider = [i \in Slots |-> GainSteps]
    /\ selectedSlot = 0
    /\ micNode = "pending"
    /\ last = [op |-> "init", idx |-> 0, rec |-> NoRecorder,
               pre |-> [i \in Slots |-> "empty"]]
    /\ owed = {}

\* the user (button, space bar, MIDI pedal) toggles recording of slot idx
ToggleRecord(idx) ==
    LET r == NumRecorders(recState) + 1
        forced == {<<j, idx>> : j \in {k \in Slots : k # idx /\ state[k] = "recording"}}
    IN  /\ state[idx] # "recording" => r \in RecIds
        /\ Commit(toggleRecord(Station, idx, r), "toggleRecord", idx,
                  NoRecorder, owed \cup forced)

\* the browser runs the stop task of recorder r: dataavailable, then stop
RecorderStopped(r) ==
    /\ recState[r] = "stopping"
    /\ \E data \in FinalData(r) :
        LET i == recOwner[r]
            st == [Station EXCEPT !.recState[r] = "inactive"]
        IN  Commit(onstop(ondataavailable(st, i, data), i),
                   "onstop", i, r, owed)

\* stop_record issued on slot i
StopRecording(i) ==
    Commit(stopRecording(Station, i), "stopRecording", i, NoRecorder, owed)

\* AudioEngine.setupMic after getUserMedia settled: granted is TRUE when the
\* promise resolved (the microphone is connected to recordDest), FALSE when
\* it rejected (the catch branch alerts and connects nothing)
SetupMicSettled(granted) ==
    /\ micNode = "pending"
    /\ micNode' = IF granted THEN "connected" ELSE "denied"
    /\ last' = [op |-> "setupMic", idx |-> 0, rec |-> NoRecorder, pre |-> state]
    /\ UNCHANGED << state, chunks, audioUrl, recorder, audioEl, recState,
                    recOwner, gainNode, slider, selectedSlot, owed,
                    metroVars, looperVars >>

\* slider.oninput of slot i, the slider moved to v
SetGain(i, v) ==
    /\ slider' = [slider EXCEPT ![i] = v]
    /\ selectedSlot' = i
    /\ gainNode' = IF gainNode[i] # Null
                   THEN [gainNode EXCEPT ![i] = << v >>]
                   ELSE gainNode
    /\ last' = [op |-> "setGain", idx |-> i, rec |-> NoRecorder, pre |-> state]
    /\ UNCHANGED << state, chunks, audioUrl, recorder, audioEl, recState,
                    recOwner, micNode, owed, metroVars, looperVars >>

StopAll == Commit(stopAll(Station), "stopAll", 0, NoRecorder, owed)

PlayAll == Commit(playAll(Station), "playAll", 0, NoRecorder, owed)

Clear(i) == Commit(clear(Station, i), "clear", i, NoRecorder, owed)

StationNext ==
    \/ \E idx \in Slots : ToggleRecord(idx)
    \/ \E r \in RecIds : RecorderStopped(r)
    \/ \E i \in Slots : StopRecording(i)
    \/ \E granted \in BOOLEAN : SetupMicSettled(granted)
    \/ StopAll
    \/ PlayAll
    \/ \E i \in Slots : Clear(i)

\* the loop station together with the gain sliders
GainNext ==
    \/ StationNext
    \/ \E i \in Slots, v \in Gains : SetGain(i, v)

(***************************************************************************)
(* Metronome.  Time is counted in ticks of 5 ms, the largest unit in which *)
(* the lookahead (25 ms), the schedule-ahead window (100 ms) and the beat  *)
(* lengths used here are whole numbers.                                    *)
(***************************************************************************)

\* this.lookahead = 25.0 (ms)
Lookahead == 5

\* this.scheduleAheadTime = 0.1 (s)
ScheduleAheadTime == 20

\* 60.0 seconds, the numerator of secondsPerBeat
SixtySeconds == 12000

\* this.bpm = 120
DefaultBpm == 120

\* tempos the bpm field is set to
Bpms == {60, 120}

\* last clock reading of a behaviour, in ticks
MaxClock == 520

\* last clock reading at which the metronome is switched on
MaxStartClock == 4

\* number of times the metronome is switched on in one behaviour
MaxRuns == 2

\* number of times bpm is changed in one behaviour
MaxBpmChanges == 1

\* secondsPerBeat = 60.0 / this.bpm
SecondsPerBeat(b) == SixtySeconds \div b

\* a nextNote that always steps by the beat of the initial tempo
nextNoteDefaultBpm(nnt, b) == nnt + SecondsPerBeat(DefaultBpm)

\* Metronome.nextNote
nextNote(nnt, b) == nnt + SecondsPerBeat(b)

\* a scheduler loop that stamps each event with the clock of the pass
RECURSIVE SchedulerLoopFromClock(_, _, _)
SchedulerLoopFromClock(m, now, b) ==
    IF m.nnt < now + ScheduleAheadTime
    THEN SchedulerLoopFromClock([nnt |-> nextNote(m.nnt, b),
                                 ev |-> Append(m.ev, now)], now, b)
    ELSE m

\* a scheduler loop that looks no further ahead than the clock
RECURSIVE SchedulerLoopNoWindow(_, _, _)
SchedulerLoopNoWindow(m, now, b) ==
    IF m.nnt < now
    THEN SchedulerLoopNoWindow([nnt |-> nextNote(m.nnt, b),
                                ev |-> Append(m.ev, m.nnt)], now, b)
    ELSE m

\* a scheduler loop that also emits the event due exactly at the horizon
RECURSIVE SchedulerLoopUpToHorizon(_, _, _)
SchedulerLoopUpToHorizon(m, now, b) ==
    IF m.nnt <= now + ScheduleAheadTime
    THEN SchedulerLoopUpToHorizon([nnt |-> nextNote(m.nnt, b),
                                   ev |-> Append(m.ev, m.nnt)], now, b)
    ELSE m

\* a scheduler pass with `if` for `while`: at most one event per pass
SchedulerLoopOnce(m, now, b) ==
    IF m.nnt < now + ScheduleAheadTime
    THEN [nnt |-> nextNote(m.nnt, b), ev |-> Append(m.ev, m.nnt)]
    ELSE m

\* the while loop of Metronome.scheduler: m = [nnt, ev]
RECURSIVE SchedulerLoop(_, _, _)
SchedulerLoop(m, now, b) ==
    IF m.nnt < now + ScheduleAheadTime
    THEN SchedulerLoop([nnt |-> nextNote(m.nnt, b),
                        ev |-> Append(m.ev, m.nnt)], now, b)
    ELSE m

\* setTimeout hands out an id no armed timeout carries
NewTimerId(ts) ==
    CHOOSE n \in 1 .. (Cardinality(ts) + 1) : \A t \in ts : t.id # n

\* a clearTimeout that cancels only timeouts armed before the one named
ClearTimeoutOlder(ts, id) == {t \in ts : t.id >= id}

\* a clearTimeout that cancels nothing
ClearTimeoutNothing(ts, id) == ts

\* clearTimeout(id)
ClearTimeout(ts, id) == {t \in ts : t.id # id}

\* a scheduler that arms two timeouts and keeps the id of the first
schedulerArmsTwice(nnt, ts) ==
    LET m == SchedulerLoop([nnt |-> nnt, ev |-> events], clock, bpm)
        id == NewTimerId(ts)
        id2 == NewTimerId(ts \cup {[id |-> id, left |-> Lookahead]})
    IN  /\ nextNoteTime' = m.nnt
        /\ events' = m.ev
        /\ timerID' = id
        /\ timers' = ts \cup {[id |-> id, left |-> Lookahead],
                              [id |-> id2, left |-> Lookahead]}

\* a scheduler that emits the due events and then puts nextNoteTime one
\* tick before the value the pass began with
schedulerRewinds(nnt, ts) ==
    LET m == SchedulerLoop([nnt |-> nnt, ev |-> events], clock, bpm)
        id == NewTimerId(ts)
    IN  /\ nextNoteTime' = nnt - 1
        /\ events' = m.ev
        /\ timerID' = id
        /\ timers' = ts \cup {[id |-> id, left |-> Lookahead]}

\* Metronome.scheduler, run at clock now with the armed timeouts ts
scheduler(nnt, ts) ==
    LET m == SchedulerLoop([nnt |-> nnt, ev |-> events], clock, bpm)
        id == NewTimerId(ts)
    IN  /\ nextNoteTime' = m.nnt
        /\ events' = m.ev
        /\ timerID' = id
        /\ timers' = ts \cup {[id |-> id, left |-> Lookahead]}

MetroInit ==
    /\ clock = 0
    /\ isPlaying = FALSE
    /\ bpm = DefaultBpm
    /\ nextNoteTime = 0
    /\ timerID = 0
    /\ timers = {}
    /\ events = << >>
    /\ runFirst = 0
    /\ runT0 = 0
    /\ bpmSince = 0
    /\ bpmChanges = 0
    /\ runs = 0
    /\ passFrom = 0
    /\ mlast = "init"

\* Metronome.toggle while stopped: start
ToggleOn ==
    /\ ~isPlaying
    /\ clock <= MaxStartClock
    /\ runs < MaxRuns
    /\ runs' = runs + 1
    /\ isPlaying' = TRUE
    /\ scheduler(clock, timers)
    /\ runFirst' = Len(events)
    /\ runT0' = clock
    /\ passFrom' = Len(events)
    /\ mlast' = "start"
    /\ UNCHANGED << clock, bpm, bpmSince, bpmChanges >>
    /\ UNCHANGED << stationVars, looperVars >>

\* Metronome.toggle while playing: stop
ToggleOff ==
    /\ isPlaying
    /\ isPlaying' = FALSE
    /\ timers' = ClearTimeout(timers, timerID)
    /\ passFrom' = Len(events)
    /\ mlast' = "stop"
    /\ UNCHANGED << clock, bpm, nextNoteTime, timerID, events, runFirst,
                    runT0, bpmSince, bpmChanges, runs >>
    /\ UNCHANGED << stationVars, looperVars >>

\* an armed timeout whose delay has elapsed fires: () => this.scheduler()
TimerFire ==
    \E t \in timers :
        /\ t.left = 0
        /\ scheduler(nextNoteTime, timers \ {t})
        /\ passFrom' = Len(events)
        /\ mlast' = "timer"
        /\ UNCHANGED << clock, isPlaying, bpm, runFirst, runT0, bpmSince,
                        bpmChanges, runs >>
        /\ UNCHANGED << stationVars, looperVars >>

\* the audio clock advances by one tick
Tick ==
    /\ clock < MaxClock
    /\ clock' = clock + 1
    /\ timers' = {[id |-> t.id, left |-> IF t.left > 0 THEN t.left - 1 ELSE 0]
                    : t \in timers}
    /\ passFrom' = Len(events)
    /\ mlast' = "tick"
    /\ UNCHANGED << isPlaying, bpm, nextNoteTime, timerID, events, runFirst,
                    runT0, bpmSince, bpmChanges, runs >>
    /\ UNCHANGED << stationVars, looperVars >>

\* the bpm field is assigned another tempo
SetBpm(b) ==
    /\ b # bpm
    /\ bpmChanges < MaxBpmChanges
    /\ bpm' = b
    /\ bpmChanges' = bpmChanges + 1
    /\ bpmSince' = Len(events)
    /\ passFrom' = Len(events)
    /\ mlast' = "bpm"
    /\ UNCHANGED << clock, isPlaying, nextNoteTime, timerID, timers, events,
                    runFirst, runT0, runs >>
    /\ UNCHANGED << stationVars, looperVars >>

MetroNext ==
    \/ ToggleOn
    \/ ToggleOff
    \/ TimerFire
    \/ Tick
    \/ \E b \in Bpms : SetBpm(b)

(***************************************************************************)
(* The single-track OoperLooper of script.js.  Its methods are functions   *)
(* from a looper record to a looper record; t is the reading of Date.now() *)
(* when the handler runs.  A timeout is a record [left, kind, event]: left *)
(* = ticks to go, kind = "note" (replay of one recorded event) or "loop"   *)
(* (next round of playLoop).  playbackTimeouts holds the timeouts that are *)
(* still armed: the ids of those that fired stay in the program's array,   *)
(* where clearTimeout does nothing with them.                              *)
(***************************************************************************)

\* the keys played: 60 is C4
Notes == {60}

\* velocity of a note played on the screen or computer keyboard
KeyVelocity == 100

\* last reading of Date.now() in a behaviour, in ticks
MaxNow == 3

\* largest number of events in recordedNotes
MaxRecorded == 3

\* largest number of armed playback timeouts
MaxTimeouts == 5

\* the event closed over by a "loop" timeout, which replays no event
NoEvent == << >>

\* stopNote; byLoop is TRUE when the call comes from a playback timeout
stopNote(l, note, t, byLoop) ==
    LET off == [l EXCEPT !.activeOscillators = @ \ {note}]
    IN  IF off.isRecording
        THEN [off EXCEPT !.recordedNotes =
                  Append(@, [note |-> note, velocity |-> 0,
                             timestamp |-> t - off.recordStartTime,
                             type |-> "noteOff", byLoop |-> byLoop])]
        ELSE off

\* playNote
playNote(l, note, velocity, t, byLoop) ==
    LET l1 == IF note \in l.activeOscillators
              THEN stopNote(l, note, t, byLoop)
              ELSE l
        on == [l1 EXCEPT !.activeOscillators = @ \cup {note}]
    IN  IF on.isRecording
        THEN [on EXCEPT !.recordedNotes =
                  Append(@, [note |-> note, velocity |-> velocity,
                             timestamp |-> t - on.recordStartTime,
                             type |-> "noteOn", byLoop |-> byLoop])]
        ELSE on

\* this.activeOscillators.forEach((_, note) => this.stopNote(note))
RECURSIVE StopActiveNotes(_, _)
StopActiveNotes(l, t) ==
    IF l.activeOscillators = {}
    THEN l
    ELSE LET note == CHOOSE n \in l.activeOscillators :
                        \A m \in l.activeOscillators : n <= m
         IN  StopActiveNotes(stopNote(l, note, t, FALSE), t)

\* stopPlayback
stopPlayback(l, t) ==
    StopActiveNotes([l EXCEPT !.isPlaying = FALSE,
                              !.playbackTimeouts = << >>], t)

\* the timeouts playLoop arms for the events from the k-th on
RECURSIVE NoteTimeouts(_, _)
NoteTimeouts(notes, k) ==
    IF k > Len(notes)
    THEN << >>
    ELSE << [left |-> notes[k].timestamp, kind |-> "note",
             event |-> notes[k]] >>
         \o NoteTimeouts(notes, k + 1)

\* playLoop
playLoop(l) ==
    IF ~l.isPlaying
    THEN l
    ELSE [l EXCEPT !.playbackTimeouts =
              @ \o NoteTimeouts(l.recordedNotes, 1)
                \o << [left |-> l.loopDuration, kind |-> "loop",
                       event |-> NoEvent] >>]

\* startPlayback
startPlayback(l) ==
    IF Len(l.recordedNotes) = 0 \/ l.loopDuration = 0
    THEN l
    ELSE playLoop([l EXCEPT !.isPlaying = TRUE])

\* togglePlay
togglePlay(l, t) ==
    IF l.isPlaying THEN stopPlayback(l, t) ELSE startPlayback(l)

\* the branch of toggleRecord that ends a take
endTake(l, t) ==
    [l EXCEPT !.isRecording = FALSE,
              !.loopDuration = t - l.recordStartTime]

\* OoperLooper.stop
looperStop(l, t) ==
    stopPlayback(IF l.isRecording THEN endTake(l, t) ELSE l, t)

\* OoperLooper.toggleRecord
looperToggleRecord(l, t) ==
    IF l.isRecording
    THEN endTake(l, t)
    ELSE [looperStop(l, t) EXCEPT !.recordedNotes = << >>,
                                  !.isRecording = TRUE,
                                  !.recordStartTime = t]

\* OoperLooper.clear
looperClear(l, t) ==
    [looperStop(l, t) EXCEPT !.recordedNotes = << >>, !.loopDuration = 0]

\* the sequence ts without its k-th element
Without(ts, k) == SubSeq(ts, 1, k - 1) \o SubSeq(ts, k + 1, Len(ts))

\* the callback of the k-th armed timeout
timeoutCallback(l, k, t) ==
    LET to == l.playbackTimeouts[k]
        l1 == [l EXCEPT !.playbackTimeouts = Without(@, k)]
    IN  IF ~l1.isPlaying
        THEN l1
        ELSE IF to.kind = "loop"
        THEN playLoop(l1)
        ELSE IF to.event.type = "noteOn"
        THEN playNote(l1, to.event.note, to.event.velocity, t, TRUE)
        ELSE stopNote(l1, to.event.note, t, TRUE)

LooperInit ==
    /\ looper = [isRecording |-> FALSE, isPlaying |-> FALSE,
                 recordedNotes |-> << >>, recordStartTime |-> 0,
                 loopDuration |-> 0, playbackTimeouts |-> << >>,
                 activeOscillators |-> {}]
    /\ dateNow = 0
    /\ llast = "init"

\* a handler of the looper has run and left the looper as l
LooperCommit(l, op) ==
    /\ Len(l.recordedNotes) <= MaxRecorded
    /\ Len(l.playbackTimeouts) <= MaxTimeouts
    /\ looper' = l
    /\ llast' = op
    /\ UNCHANGED << dateNow, stationVars, metroVars >>

\* click on recordBtn
LooperToggleRecord == LooperCommit(looperToggleRecord(looper, dateNow), "toggleRecord")

\* click on playBtn
LooperTogglePlay == LooperCommit(togglePlay(looper, dateNow), "togglePlay")

\* click on stopBtn
LooperStop == LooperCommit(looperStop(looper, dateNow), "stop")

\* click on clearBtn
LooperClear == LooperCommit(looperClear(looper, dateNow), "clear")

\* a key goes down (screen, computer keyboard or MIDI)
NoteOn(n) == LooperCommit(playNote(looper, n, KeyVelocity, dateNow, FALSE), "noteOn")

\* a key goes up
NoteOff(n) == LooperCommit(stopNote(looper, n, dateNow, FALSE), "noteOff")

\* an armed playback timeout whose delay has elapsed fires
PlaybackTimeout(k) ==
    /\ k \in 1 .. Len(looper.playbackTimeouts)
    /\ looper.playbackTimeouts[k].left = 0
    /\ LooperCommit(timeoutCallback(looper, k, dateNow), "timeout")

\* Date.now() advances by one tick
LooperTick ==
    /\ dateNow < MaxNow
    /\ dateNow' = dateNow + 1
    /\ looper' = [looper EXCEPT !.playbackTimeouts =
                     [k \in 1 .. Len(@) |->
                         [@[k] EXCEPT !.left = IF @ > 0 THEN @ - 1 ELSE 0]]]
    /\ llast' = "tick"
    /\ UNCHANGED << stationVars, metroVars >>

LooperNext ==
    \/ LooperToggleRecord
    \/ LooperTogglePlay
    \/ LooperStop
    \/ LooperClear
    \/ \E n \in Notes : NoteOn(n)
    \/ \E n \in Notes : NoteOff(n)
    \/ \E k \in 1 .. MaxTimeouts : PlaybackTimeout(k)
    \/ LooperTick

Init == StationInit /\ MetroInit /\ LooperInit

SpecStation == Init /\ [][StationNext]_vars

\* the loop station where the task queued by MediaRecorder.stop() is
\* eventually run by the event loop
SpecStationFair ==
    SpecStation /\ \A r \in RecIds : WF_vars(RecorderStopped(r))

SpecGain == Init /\ [][GainNext]_vars

SpecMetro == Init /\ [][MetroNext]_vars

SpecLooper == Init /\ [][LooperNext]_vars

(***************************************************************************)
(* Properties of the loop station.                                         *)
(***************************************************************************)

Recording == {i \in Slots : state[i] = "recording"}

\* C1: in every reachable state at most one slot has state 'recording'.
AtMostOneRecording == Cardinality(Recording) <= 1

\* C2: once toggleRecord(i) has force-stopped a recording slot j, there is
\* no state in which i is Recording while j has not yet become Playing.
ForcedSlotPlaysBeforeNewRecording ==
    \A p \in owed : state[p[2]] # "recording"

\* C3: at most one capture session (a started, not yet stopped
\* MediaRecorder) is open on the record bus in every reachable state.
AtMostOneOpenSession == Cardinality(OpenSessions) <= 1

\* C7: right after clear the slot is Empty and holds no asset, whatever its
\* state was before.
ClearLeavesEmpty ==
    last.op = "clear" =>
        /\ state[last.idx] = "empty"
        /\ audioUrl[last.idx] = Null

ClearedWhileRecording ==
    /\ last.op = "clear"
    /\ last.pre[last.idx] = "recording"
    /\ \E j \in Slots : last.pre[j] = "playing"

\* C8: right after stopAll no slot is Playing or Recording, every slot that
\* was Empty is still Empty and every other slot is Stopped.
StopAllPost ==
    last.op = "stopAll" =>
        \A i \in Slots :
            /\ state[i] \notin {"playing", "recording"}
            /\ last.pre[i] = "empty" => state[i] = "empty"
            /\ last.pre[i] # "empty" => state[i] = "stopped"

StopAllOverMixedSlots ==
    /\ last.op = "stopAll"
    /\ \E i \in Slots : last.pre[i] = "recording"
    /\ \E i \in Slots : last.pre[i] = "playing"
    /\ \E i \in Slots : last.pre[i] = "empty"

\* C9: when a take is finalized, the slot's asset is the concatenation of
\* exactly the chunks that take delivered, and of no other take's chunks.
FinalizedAssetIsOwnTake ==
    last.op = "onstop" =>
        \E data \in FinalData(last.rec) : audioUrl[last.idx] = << << data >> >>

\* C10: stopAll invoked while a slot is Recording stops that slot's capture
\* (so that it is finalized): after stopAll the capture session of a slot
\* that was Recording is no longer open.
StopAllStopsCapture ==
    last.op = "stopAll" =>
        \A i \in Slots :
            last.pre[i] = "recording" => recorder[i] \notin OpenSessions

(***************************************************************************)
(* Properties of the metronome.                                            *)
(***************************************************************************)

\* the events of the current run
RunEvents == SubSeq(events, runFirst + 1, Len(events))

\* bpm has not been changed since the current run began
BpmHeldInRun == bpmSince <= runFirst

\* C4, as stated: with bpm held constant, any two consecutively emitted
\* events are exactly one beat (60/bpm) apart.
BeatSpacingAlways ==
    \A k \in 1 .. (Len(events) - 1) :
        k > bpmSince => events[k + 1] - events[k] = SecondsPerBeat(bpm)

\* C4, amended: with bpm held constant, any two events emitted
\* consecutively in the same run are exactly one beat (60/bpm) apart.
BeatSpacingWithinRun ==
    \A k \in 1 .. (Len(events) - 1) :
        (k > bpmSince /\ k > runFirst) =>
            events[k + 1] - events[k] = SecondsPerBeat(bpm)

\* a late timer pass has just emitted a backlog of two or more events
LatePassEmittedBacklog ==
    /\ mlast = "timer"
    /\ BpmHeldInRun
    /\ Len(events) >= passFrom + 2
    /\ passFrom > runFirst

\* the trigger times t0 + k * beat, k = 0, 1, ..., that are < now + window
DueEvents(t0, now, b) ==
    LET n == ((now + ScheduleAheadTime - t0 - 1) \div SecondsPerBeat(b)) + 1
    IN  [k \in 1 .. n |-> t0 + (k - 1) * SecondsPerBeat(b)]

\* C5: right after a scheduling pass at clock now, in a run started at t0
\* with constant bpm, the events of the run are exactly the trigger times
\* t0 + k * (60/bpm) below now + scheduleAheadTime.
PassEmitsExactlyDueEvents ==
    (mlast \in {"start", "timer"} /\ BpmHeldInRun) =>
        RunEvents = DueEvents(runT0, clock, bpm)

\* bpm = 60, window = 100 ms, run started at 0: a late pass at clock 2.5 s
\* has emitted the backlog, and the run's events are 0.0, 1.0 and 2.0
BacklogAtTwoAndAHalfSeconds ==
    /\ mlast = "timer"
    /\ bpm = 60
    /\ BpmHeldInRun
    /\ runT0 = 0
    /\ clock = 500
    /\ passFrom = runFirst + 1
    /\ RunEvents = << 0, 200, 400 >>

\* C6: start runs a scheduling pass at once, which emits the event at the
\* start time; with bpm = 120 a run stopped 10 ms after its start has
\* emitted exactly one event, and no event is added while stopped.
StartStopEmitsOne ==
    [][ /\ (~isPlaying /\ isPlaying') =>
               /\ Len(events') > Len(events)
               /\ events'[Len(events) + 1] = clock
        /\ (isPlaying /\ ~isPlaying' /\ bpm = 120 /\ BpmHeldInRun
                /\ clock = runT0 + 2) =>
               Len(events') = runFirst + 1
        /\ (~isPlaying /\ ~isPlaying') => events' = events
      ]_vars

\* a run at bpm = 120 has just been stopped 10 ms after its start
StoppedTenMsAfterStart ==
    /\ mlast = "stop"
    /\ ~isPlaying
    /\ bpm = 120
    /\ BpmHeldInRun
    /\ clock = runT0 + 2
    /\ Len(events) = runFirst + 1

(***************************************************************************)
(* Properties of the loop station, continued.                              *)
(***************************************************************************)

\* C11: right after playAll every slot that was Stopped is Playing and
\* every slot that was in another state is in the state it was in.
PlayAllPost ==
    last.op = "playAll" =>
        \A i \in Slots :
            /\ last.pre[i] = "stopped" => state[i] = "playing"
            /\ last.pre[i] # "stopped" => state[i] = last.pre[i]

\* the station without the history of the last handler
Observable ==
    << state, chunks, audioUrl, recorder, audioEl, recState, recOwner,
       gainNode >>

\* C14: stop_record on a slot that is not Recording changes nothing: the
\* states, assets, chunks and capture sessions of all slots stay as they are.
StopRecordingNoOp ==
    [][ (last'.op = "stopRecording" /\ state[last'.idx] # "recording")
            => UNCHANGED Observable ]_vars

\* stop_record was issued on a Stopped slot whose recorder is still running
StopRecordingOnStoppedSlot ==
    /\ last.op = "stopRecording"
    /\ last.pre[last.idx] = "stopped"
    /\ recorder[last.idx] \in OpenSessions

Unusable(blobs) == \A k \in 1 .. Len(blobs) : blobs[k] = EmptyBlob

\* C13: when finalizing a take yields no usable asset, the slot is Empty
\* (and holds no asset) after the finalize callback, not Playing.
UnusableAssetRevertsToEmpty ==
    (last.op = "onstop" /\ Unusable(chunks[last.idx])) =>
        /\ state[last.idx] = "empty"
        /\ audioUrl[last.idx] = Null

\* C12: start_record attempted on an Empty slot while the capture bus is
\* unavailable (microphone access denied) fails: the slot is still Empty
\* after the attempt.
StartRecordFailsWithoutBus ==
    (last.op = "toggleRecord" /\ micNode = "denied"
        /\ last.pre[last.idx] = "empty")
        => state[last.idx] = "empty"

\* C18: a change of a slot's gain changes no slot's state or asset and no
\* other slot's playback gain, and on a slot that is Empty or Recording it
\* changes nothing about audio that is sounding.
GainChangeIsInert ==
    [][ last'.op = "setGain" =>
          /\ state' = state
          /\ audioUrl' = audioUrl
          /\ \A j \in Slots : j # last'.idx => gainNode'[j] = gainNode[j]
          /\ (state[last'.idx] \in {"empty", "recording"} /\ audioEl[last'.idx])
                => gainNode'[last'.idx] = gainNode[last'.idx]
      ]_vars

\* C15, as stated: right after every scheduling pass nextNoteTime lies in
\* [now, now + scheduleAheadTime), and at every other moment while the
\* metronome runs it is ahead of now.
NextNoteTimeInsideWindow ==
    /\ mlast \in {"start", "timer"} =>
          /\ clock <= nextNoteTime
          /\ nextNoteTime < clock + ScheduleAheadTime
    /\ (isPlaying /\ mlast \notin {"start", "timer"}) => nextNoteTime > clock

\* C15, amended: right after every scheduling pass nextNoteTime is at or
\* beyond the end of the window, now + scheduleAheadTime; and while the
\* metronome runs and its armed timeout has not come due, nextNoteTime is
\* ahead of now by more than scheduleAheadTime - lookahead.
NextNoteTimeBeyondWindow ==
    /\ mlast \in {"start", "timer"} =>
          nextNoteTime >= clock + ScheduleAheadTime
    /\ isPlaying =>
          \A t \in timers :
              t.left > 0 =>
                  nextNoteTime + Lookahead >= clock + ScheduleAheadTime + t.left

\* C15 witness: a pass run by a late timeout has just emitted a backlog of
\* events and left nextNoteTime beyond the window
LatePassLeftNextNoteBeyondWindow ==
    /\ isPlaying
    /\ mlast = "timer"
    /\ Len(events) >= passFrom + 2
    /\ nextNoteTime >= clock + ScheduleAheadTime

\* C16: while the metronome is stopped no timeout is armed, the last step
\* was neither a scheduling pass nor one that emitted an event; this holds
\* along every interleaving of start, stop, timer firings and clock ticks.
StoppedIsSilent ==
    ~isPlaying =>
        /\ timers = {}
        /\ mlast \notin {"start", "timer"}
        /\ Len(events) = passFrom

\* C16 witness: after start, stop, start, stop the clock has run past the
\* moment the cancelled timeout was due
StoppedTwicePastTimerDue ==
    /\ ~isPlaying
    /\ runs >= 2
    /\ mlast = "tick"
    /\ clock > runT0 + Lookahead

\* C17: an assignment to bpm changes no emitted event and not nextNoteTime;
\* a pass run by the timer appends to the events, its first event at the
\* nextNoteTime it found, each further one and the new nextNoteTime one beat
\* of the current bpm later.
BpmChangeKeepsSchedule ==
    [][ /\ bpm' # bpm => (events' = events /\ nextNoteTime' = nextNoteTime)
        /\ mlast' = "timer" =>
              /\ Len(events') >= Len(events)
              /\ SubSeq(events', 1, Len(events)) = events
              /\ Len(events') > Len(events) =>
                    /\ events'[Len(events) + 1] = nextNoteTime
                    /\ \A k \in (Len(events) + 1) .. (Len(events') - 1) :
                          events'[k + 1] = events'[k] + SecondsPerBeat(bpm)
                    /\ nextNoteTime' =
                          events'[Len(events')] + SecondsPerBeat(bpm)
      ]_vars

\* C17 witness: the first pass after a change of bpm in a running metronome
\* has emitted two events or more, the first of them not one new beat after
\* the last event emitted before the change
PassAfterBpmChange ==
    /\ isPlaying
    /\ mlast = "timer"
    /\ bpmChanges > 0
    /\ bpmSince > runFirst
    /\ passFrom = bpmSince
    /\ Len(events) >= passFrom + 2
    /\ events[passFrom + 1] # events[passFrom] + SecondsPerBeat(bpm)
    /\ events[passFrom + 2] = events[passFrom + 1] + SecondsPerBeat(bpm)

\* the stop task of recorder r is queued and has not run
StopPending(r) == recState[r] = "stopping"

\* C19: stop_record (explicit, by toggle, or forced by another slot's
\* toggle) on a Recording slot leaves the slot Recording in the same step,
\* with the stop task of its recorder pending; the step that runs a pending
\* stop task leaves the recorder's slot Playing with an asset; and, the event
\* loop being fair to the task, no stop task stays pending forever.
StopRecordFinalizesLater ==
    /\ [][ /\ \A i \in Slots :
                (/\ state[i] = "recording"
                 /\ \/ last'.op = "toggleRecord"
                    \/ last'.op = "stopRecording" /\ last'.idx = i)
                  => /\ state'[i] = "recording"
                     /\ StopPending(recorder[i])'
           /\ \A r \in RecIds :
                (StopPending(r) /\ ~StopPending(r)')
                  => /\ state'[recOwner[r]] = "playing"
                     /\ audioUrl'[recOwner[r]] # Null
         ]_vars
    /\ \A r \in RecIds : []<>(~StopPending(r))

\* C19 witness: stopRecording has just been called on a Recording slot; the
\* slot is still 'recording' and its recorder's stop task is pending
StopRecordPending ==
    /\ last.op = "stopRecording"
    /\ last.pre[last.idx] = "recording"
    /\ state[last.idx] = "recording"
    /\ recState[recorder[last.idx]] = "stopping"

\* C21: while the metronome is running nextNoteTime never decreases from one
\* step to the next, and the events one pass emits are in non-decreasing
\* order of trigger time.
NextNoteTimeMonotone ==
    [][ /\ (isPlaying /\ isPlaying') => nextNoteTime' >= nextNoteTime
        /\ \A k \in (Len(events) + 1) .. (Len(events') - 1) :
              events'[k] <= events'[k + 1]
      ]_vars

\* C21 witness: a pass of the running metronome has just emitted three
\* events or more, in increasing order
PassEmittedThreeInOrder ==
    /\ isPlaying
    /\ mlast = "timer"
    /\ Len(events) >= passFrom + 3
    /\ events[passFrom + 1] < events[passFrom + 2]
    /\ events[passFrom + 2] < events[passFrom + 3]
    /\ events[Len(events)] < nextNoteTime

\* C24: right after every scheduling pass of a run in which bpm has been
\* constant, now + scheduleAheadTime <= nextNoteTime
\* < now + scheduleAheadTime + 60/bpm.
NextNoteTimeWithinBeatOfHorizon ==
    (mlast \in {"start", "timer"} /\ BpmHeldInRun) =>
        /\ clock + ScheduleAheadTime <= nextNoteTime
        /\ nextNoteTime < clock + ScheduleAheadTime + SecondsPerBeat(bpm)

\* C24 witness: a pass run by the timer has emitted an event that was due
\* one tick before the horizon, leaving nextNoteTime one tick short of a
\* whole beat beyond it
PassEndsJustUnderBeatBeyondHorizon ==
    /\ mlast = "timer"
    /\ BpmHeldInRun
    /\ Len(events) = passFrom + 1
    /\ nextNoteTime = clock + ScheduleAheadTime + SecondsPerBeat(bpm) - 1

\* C25: between handlers at most one timeout of the metronome is armed, and
\* one is armed exactly when isPlaying is true.
OneTimerIffPlaying ==
    /\ Cardinality(timers) <= 1
    /\ (timers # {}) <=> isPlaying
    /\ \A t \in timers : t.id = timerID

\* C25 witness: in the second run of the metronome a pass run by the timer
\* has re-armed the timeout
SecondRunTimerRearmed ==
    /\ isPlaying
    /\ runs >= 2
    /\ mlast = "timer"
    /\ Cardinality(timers) = 1

\* the blobs of asset a that hold captured audio
TakesIn(a) ==
    IF a = Null
    THEN {}
    ELSE {a[1][k] : k \in 1 .. Len(a[1])} \ {EmptyBlob}

\* C22: toggleRecord(i) when no other slot is Recording, clear of slot i and
\* the finalize callback of slot i leave the state and the asset of every
\* other slot unchanged; and the asset of a slot holds only takes of
\* recorders of that slot.
SlotsIndependent ==
    /\ [][ (\/ last'.op \in {"clear", "onstop"}
            \/ /\ last'.op = "toggleRecord"
               /\ \A j \in Slots : j # last'.idx => state[j] # "recording")
           => \A j \in Slots :
                  j # last'.idx =>
                      /\ state'[j] = state[j]
                      /\ audioUrl'[j] = audioUrl[j]
         ]_vars
    /\ [](\A i \in Slots : \A r \in TakesIn(audioUrl[i]) : recOwner[r] = i)

\* C22 witness: a take has just been started on one slot while two other
\* slots, one Playing and one Stopped or Empty, kept state and asset
RecordingBesidePlayingSlot ==
    /\ last.op = "toggleRecord"
    /\ state[last.idx] = "recording"
    /\ last.pre[last.idx] # "recording"
    /\ \E j \in Slots :
          /\ j # last.idx
          /\ last.pre[j] = "playing"
          /\ state[j] = "playing"
          /\ TakesIn(audioUrl[j]) # {}

\* C23: a slot that is Empty without asset stays so until toggleRecord
\* starts a take on it; in particular the finalize callback of a recording
\* stopped before a clear leaves the cleared slot Empty.
ClearedSlotStaysEmpty ==
    [][ \A i \in Slots :
            (state[i] = "empty" /\ audioUrl[i] = Null) =>
                \/ state'[i] = "empty" /\ audioUrl'[i] = Null
                \/ last'.op = "toggleRecord" /\ last'.idx = i
      ]_vars

\* C26: a slot that is Playing or Stopped holds an asset, and a slot that is
\* Empty holds none.
AssetMatchesState ==
    \A i \in Slots :
        /\ state[i] \in {"playing", "stopped"} => audioUrl[i] # Null
        /\ state[i] = "empty" => audioUrl[i] = Null

\* C27: the audio element of a slot plays its loop only while the slot is
\* Playing.
LoopSoundsOnlyWhenPlaying ==
    \A i \in Slots : audioEl[i] => state[i] = "playing"

(***************************************************************************)
(* Properties of the single-track looper.                                  *)
(***************************************************************************)

\* C28: isRecording and isPlaying are never both true, and no event of
\* recordedNotes was appended by a playback timeout.
NeverRecordingWhilePlaying ==
    /\ ~(looper.isRecording /\ looper.isPlaying)
    /\ \A k \in 1 .. Len(looper.recordedNotes) :
          ~looper.recordedNotes[k].byLoop

====
